---- MODULE Spec2Model ----
\* Session history store (loadSessions / saveSession / deleteSession over one
\* localStorage key) and the App component that drives it.
EXTENDS Integers, Sequences, FiniteSets, TLC

\* ---------------------------------------------------------------- constants
RETENTION_MS == 10 * 24 * 60 * 60 * 1000

\* Bounds of the model.
MaxMs == 1
MaxMsgs == 2
MaxJunk == 1
MaxSwitches == 1
MaxTabMsgs == 1
MaxHistory == 2
MaxAttachments == 2
MaxChunks == 3
\* Clock readings: up to MaxMs milliseconds after the start, and the three
\* instants around the end of the retention window of a session saved at the
\* start (so that ages below, equal to and above RETENTION_MS all occur).
Instants == (0..MaxMs) \cup {RETENTION_MS - 1, RETENTION_MS, RETENTION_MS + 1}
\* Clock readings while the App runs: the first milliseconds, and an instant
\* at which every session saved in them has reached retention age.
AppInstants == (0..MaxMs) \cup {RETENTION_MS + 1}

Ids == {"a", "b", "c"}
NoProject == "null"
NoSession == ""
\* The mode and project registries (MODES, MOCK_PROJECTS), by id.
ModeIds == {"General", "Landing Page Creator", "Ebook Architect", "Visual Studio",
            "Market Research"}
GeneralMode == "General"
ProjectIds == {"p1", "p2"}
\* The modes and projects the user picks in the model.
ModeChoices == {"General", "Market Research"}
ProjectChoices == {NoProject, "p1"}
\* Session contents a caller may hand to saveSession, each with the
\* lastModified the caller supplies (saveSession overrides it).
Hi == [title |-> "Hi", messages |-> <<>>, modeId |-> "General", projectId |-> NoProject,
       lastModified |-> 0]
Yo == [title |-> "Yo", messages |-> <<"m1">>, modeId |-> "Market Research",
       projectId |-> "p1", lastModified |-> 5]

MkSession(id, c) ==
  [id |-> id, title |-> c.title, lastModified |-> c.lastModified, messages |-> c.messages,
   modeId |-> c.modeId, projectId |-> c.projectId]

\* Array elements that are not session records: a JSON null (reading a
\* property of it throws) and a JSON scalar (its lastModified is undefined).
JsonNull == [junk |-> "null"]
JsonScalar == [junk |-> "scalar"]
IsSession(e) == "id" \in DOMAIN e

VARIABLES
  now,            \* Date.now()
  storageKind,    \* what localStorage holds under STORAGE_KEY:
                  \*   "missing" | "invalid" | "nonarray" | "array"
  storage,        \* the parsed array when storageKind = "array", else <<>>
  op,             \* the last store call: name, id, argument, time, and the
                  \* index at which the loaded list held the id (0: nowhere)
  drop,           \* ids the retention filter removed during the last store call
  ret,            \* the list the last store call returned
  lastIns,        \* <<>> or <<[id, at]>>: the latest insertion of a new entry
  deleted,        \* ids deleted and not saved again since
  \* --- the App component (React state) ---
  sessions,         \* the session list shown in the sidebar
  currentSessionId, \* NoSession when no session is current
  messages,         \* the message list on screen
  currentMode,      \* id of the current mode
  currentProject,   \* id of the current project, or NoProject
  isTyping,         \* the typing indicator
  pending,          \* backend calls in flight: [n, origin]
  shared,           \* the sidebar entry of the current session holds the very
                    \* array that is the messages state (same object)
  sent,             \* number of messages sent so far
  switches,         \* number of mode and project changes made by hand so far
  lastMint,         \* clock value of the latest session creation
  dropped,          \* ids the retention filter dropped while the App ran
  \* --- several App instances (browser tabs) over the one store ---
  tabs,             \* the React state of each instance
  lastSave,         \* <<>> or <<[tab, id]>>: the save the last step's effect made
  removed,          \* ids some instance deleted through handleDeleteSession
  \* --- one call of a pure function of the program ---
  input,            \* its arguments
  output            \* what it returned

storeVars == <<storageKind, storage>>
callVars == <<op, drop, ret, lastIns, deleted>>
appVars == <<sessions, currentSessionId, messages, currentMode, currentProject,
             isTyping, pending, shared, sent, switches, lastMint, dropped>>
tabVars == <<tabs, lastSave, removed>>
fnVars == <<input, output>>
sideVars == <<tabVars, fnVars>>
vars == <<now, storeVars, callVars, appVars, sideVars>>

\* ------------------------------------------------------------ pure helpers
SeqIds(seq) == {seq[i].id : i \in {j \in 1..Len(seq) : IsSession(seq[j])}}

\* findIndex(s => s.id === id): first matching index, 0 when there is none
\* (the code's -1).
findIndex(seq, id) ==
  IF \E i \in 1..Len(seq) : seq[i].id = id
  THEN CHOOSE i \in 1..Len(seq) : seq[i].id = id /\ \A j \in 1..(i - 1) : seq[j].id # id
  ELSE 0

\* Variant: the comparison admits an age of exactly RETENTION_MS.
ValidInclusive(s, t) ==
  IF IsSession(s) THEN (t - s.lastModified) <= RETENTION_MS ELSE FALSE

\* The retention predicate of loadSessions: (now - s.lastModified) < RETENTION_MS.
\* A scalar has no lastModified: now - undefined is NaN and NaN < x is false.
Valid(s, t) == IF IsSession(s) THEN (t - s.lastModified) < RETENTION_MS ELSE FALSE

validSessions(seq, t) == SelectSeq(seq, LAMBDA s : Valid(s, t))

\* Variant: a sort that does not keep equal elements in their order.
RECURSIVE InsertSortedUnstable(_, _)
InsertSortedUnstable(sorted, x) ==
  IF sorted = <<>> THEN <<x>>
  ELSE IF Head(sorted).lastModified > x.lastModified
       THEN <<Head(sorted)>> \o InsertSortedUnstable(Tail(sorted), x)
       ELSE <<x>> \o sorted

\* Array.prototype.sort with comparator (a, b) => b.lastModified - a.lastModified:
\* a stable sort, largest lastModified first.
RECURSIVE InsertSorted(_, _)
InsertSorted(sorted, x) ==
  IF sorted = <<>> THEN <<x>>
  ELSE IF Head(sorted).lastModified >= x.lastModified
       THEN <<Head(sorted)>> \o InsertSorted(Tail(sorted), x)
       ELSE <<x>> \o sorted

RECURSIVE SortNewestFirst(_)
SortNewestFirst(seq) ==
  IF seq = <<>> THEN <<>>
  ELSE InsertSorted(SortNewestFirst(SubSeq(seq, 1, Len(seq) - 1)), seq[Len(seq)])

\* ------------------------------------------------------------- store calls
\* Each store call maps (storageKind, storage, clock) to the new storage and
\* the returned list; drop is the set of ids the retention filter removed.
StoreResult(k, s, r, d) == [kind |-> k, storage |-> s, ret |-> r, drop |-> d]

\* Variant: a null element is skipped (s?.lastModified) instead of throwing.
loadSessionsNoThrow(kind, stored, t) ==
  IF kind # "array"
  THEN StoreResult(kind, stored, <<>>, {})
  ELSE LET valid == validSessions(stored, t)
       IN StoreResult("array",
                      IF Len(valid) # Len(stored) THEN valid ELSE stored,
                      SortNewestFirst(valid),
                      SeqIds(stored) \ SeqIds(valid))

loadSessions(kind, stored, t) ==
  IF kind # "array"
  THEN \* no item, JSON.parse throws, or the parsed value has no filter method
       StoreResult(kind, stored, <<>>, {})
  ELSE IF \E i \in 1..Len(stored) : stored[i] = JsonNull
  THEN \* s.lastModified throws inside filter; caught, nothing written
       StoreResult(kind, stored, <<>>, {})
  ELSE LET valid == validSessions(stored, t)
       IN StoreResult("array",
                      IF Len(valid) # Len(stored) THEN valid ELSE stored,
                      SortNewestFirst(valid),
                      SeqIds(stored) \ SeqIds(valid))

\* Variants of saveSession: a new session is pushed at the end; the lookup
\* of the id is skipped; a replaced session moves to the front; the caller's
\* lastModified is kept.
saveSessionAppend(kind, stored, t, session) ==
  LET loaded == loadSessions(kind, stored, t)
      loadedList == loaded.ret
      index == findIndex(loadedList, session.id)
      updatedSession == [session EXCEPT !.lastModified = t]
      result == IF index >= 1
                THEN [loadedList EXCEPT ![index] = updatedSession]
                ELSE loadedList \o <<updatedSession>>
  IN StoreResult("array", result, result, loaded.drop)

saveSessionAlwaysInsert(kind, stored, t, session) ==
  LET loaded == loadSessions(kind, stored, t)
      loadedList == loaded.ret
      updatedSession == [session EXCEPT !.lastModified = t]
      result == <<updatedSession>> \o loadedList
  IN StoreResult("array", result, result, loaded.drop)

saveSessionMoveToFront(kind, stored, t, session) ==
  LET loaded == loadSessions(kind, stored, t)
      loadedList == loaded.ret
      updatedSession == [session EXCEPT !.lastModified = t]
      result == <<updatedSession>> \o SelectSeq(loadedList, LAMBDA s : s.id # session.id)
  IN StoreResult("array", result, result, loaded.drop)

saveSessionKeepsStamp(kind, stored, t, session) ==
  LET loaded == loadSessions(kind, stored, t)
      loadedList == loaded.ret
      index == findIndex(loadedList, session.id)
      result == IF index >= 1
                THEN [loadedList EXCEPT ![index] = session]
                ELSE <<session>> \o loadedList
  IN StoreResult("array", result, result, loaded.drop)

\* A variant with an optimistic-lock check: an update whose session does not
\* carry the lastModified of the stored entry is rejected.
saveSessionChecked(kind, stored, t, session) ==
  LET loaded == loadSessions(kind, stored, t)
      loadedList == loaded.ret
      index == findIndex(loadedList, session.id)
      updatedSession == [session EXCEPT !.lastModified = t]
      result == IF index >= 1
                THEN IF loadedList[index].lastModified = session.lastModified
                     THEN [loadedList EXCEPT ![index] = updatedSession]
                     ELSE loadedList
                ELSE <<updatedSession>> \o loadedList
  IN StoreResult("array", result, result, loaded.drop)

saveSession(kind, stored, t, session) ==
  LET loaded == loadSessions(kind, stored, t)
      loadedList == loaded.ret
      index == findIndex(loadedList, session.id)
      updatedSession == [session EXCEPT !.lastModified = t]
      result == IF index >= 1
                THEN [loadedList EXCEPT ![index] = updatedSession]
                ELSE <<updatedSession>> \o loadedList
  IN StoreResult("array", result, result, loaded.drop)

\* Variants of deleteSession: the filter keeps the matching session instead
\* of the others; the unfiltered list is what gets stored.
deleteSessionInverted(kind, stored, t, id) ==
  LET loaded == loadSessions(kind, stored, t)
      loadedList == loaded.ret
      filtered == SelectSeq(loadedList, LAMBDA s : s.id = id)
  IN StoreResult("array", filtered, filtered, loaded.drop)

deleteSessionStoresAll(kind, stored, t, id) ==
  LET loaded == loadSessions(kind, stored, t)
      loadedList == loaded.ret
      filtered == SelectSeq(loadedList, LAMBDA s : s.id # id)
  IN StoreResult("array", loadedList, filtered, loaded.drop)

deleteSession(kind, stored, t, id) ==
  LET loaded == loadSessions(kind, stored, t)
      loadedList == loaded.ret
      filtered == SelectSeq(loadedList, LAMBDA s : s.id # id)
  IN StoreResult("array", filtered, filtered, loaded.drop)

\* ------------------------------------------------------------------- state
NoArg == <<>>
Op(name, id, arg, index) ==
  [name |-> name, id |-> id, arg |-> arg, at |-> now, index |-> index]

\* The App instances that share the store, and the React state of an instance
\* right after construction (the useState initial values).
Tabs == {1, 2}
FreshTab ==
  [sessions |-> <<>>, sid |-> NoSession, messages |-> <<>>, mode |-> GeneralMode,
   project |-> NoProject, shared |-> FALSE, isTyping |-> FALSE, pending |-> {}]

\* Everything but the content of localStorage.
InitState ==
  /\ now = 0
  /\ op = [name |-> "init", id |-> "", arg |-> NoArg, at |-> 0, index |-> 0]
  /\ drop = {}
  /\ ret = <<>>
  /\ lastIns = <<>>
  /\ deleted = {}
  /\ sessions = <<>>
  /\ currentSessionId = NoSession
  /\ messages = <<>>
  /\ currentMode = GeneralMode
  /\ currentProject = NoProject
  /\ isTyping = FALSE
  /\ pending = {}
  /\ shared = FALSE
  /\ sent = 0
  /\ switches = 0
  /\ lastMint = -1
  /\ dropped = {}
  /\ tabs = [t \in Tabs |-> FreshTab]
  /\ lastSave = <<>>
  /\ removed = {}
  /\ output = <<>>

Init ==
  /\ input = <<>>
  /\ storageKind = "missing"
  /\ storage = <<>>
  /\ InitState

\* Bookkeeping shared by every store call: res is the call's StoreResult.
Commit(res) ==
  /\ storageKind' = res.kind
  /\ storage' = res.storage
  /\ ret' = res.ret
  /\ drop' = res.drop

List ==
  LET res == loadSessions(storageKind, storage, now)
  IN /\ Commit(res)
     /\ op' = Op("list", "", NoArg, 0)
     /\ UNCHANGED <<sideVars, now, lastIns, deleted, appVars>>

Save(session) ==
  LET res == saveSession(storageKind, storage, now, session)
      index == findIndex(loadSessions(storageKind, storage, now).ret, session.id)
      isNew == index = 0
  IN /\ Commit(res)
     /\ op' = Op("save", session.id, <<session>>, index)
     /\ lastIns' = IF isNew THEN <<[id |-> session.id, at |-> now]>> ELSE lastIns
     /\ deleted' = deleted \ {session.id}
     /\ UNCHANGED <<sideVars, now, appVars>>

Delete(id) ==
  LET res == deleteSession(storageKind, storage, now, id)
      index == findIndex(loadSessions(storageKind, storage, now).ret, id)
  IN /\ Commit(res)
     /\ op' = Op("delete", id, NoArg, index)
     /\ deleted' = deleted \cup {id}
     /\ UNCHANGED <<sideVars, now, lastIns, appVars>>

\* Time passes between two calls.
Tick(t) ==
  /\ t > now
  /\ now' = t
  /\ UNCHANGED <<sideVars, storeVars, callVars, appVars>>

\* The sessions handed to saveSession.
SaveInputs ==
  {MkSession("a", Hi), MkSession("a", Yo), MkSession("b", Hi), MkSession("c", Yo)}

DoSave == \E session \in SaveInputs : Save(session)
DoDelete == \E id \in Ids : Delete(id)
DoTick == \E t \in Instants : Tick(t)

Next == List \/ DoSave \/ DoDelete \/ DoTick

Spec == Init /\ [][Next]_vars

\* ------------------------------------------------ a store others write to
\* Something else writes the storage key: the item is removed, replaced by
\* text that is not JSON or by a JSON value that is not an array, or an array
\* element that is not a session record is added to the stored array.
Junk(seq) == Cardinality({i \in 1..Len(seq) : ~IsSession(seq[i])})

Tamper(kind, stored) ==
  /\ storageKind' = kind
  /\ storage' = stored
  /\ op' = Op("tamper", "", NoArg, 0)
  /\ UNCHANGED <<sideVars, now, drop, ret, lastIns, deleted, appVars>>

DoTamper ==
  \/ \E kind \in {"missing", "invalid", "nonarray"} : Tamper(kind, <<>>)
  \/ \E junk \in {JsonNull, JsonScalar} :
        /\ Junk(storage) < MaxJunk
        /\ Tamper("array", storage \o <<junk>>)

NextTamper == Next \/ DoTamper

SpecTamper == Init /\ [][NextTamper]_vars

\* ------------------------------------------------------------------ App
\* The k-th text the user sends, the answer to it, and the two messages.
Text(k) == <<"q", k>>
Answer(k) == <<"a", k>>
UserMsg(k) == [role |-> "user", content |-> Text(k), type |-> "text"]
ModelMsg(k) == [role |-> "model", content |-> Answer(k), type |-> "text"]

\* The React state together with the storage, as one value that the handlers
\* and the effect transform.
AppState ==
  [kind |-> storageKind, storage |-> storage, sessions |-> sessions,
   sid |-> currentSessionId, messages |-> messages, mode |-> currentMode,
   project |-> currentProject, shared |-> shared, dropped |-> dropped]

\* The effect on [messages, currentSessionId, currentMode, currentProject]:
\* saves the current session, taken from the sidebar list, with the messages,
\* mode and project on screen, and shows the list saveSession returns.
persistEffect(st) ==
  LET index == findIndex(st.sessions, st.sid)
  IN IF st.sid # NoSession /\ Len(st.messages) > 0 /\ index >= 1
     THEN LET sessionToUpdate == st.sessions[index]
              updatedSession == [sessionToUpdate EXCEPT !.messages = st.messages,
                                                        !.modeId = st.mode,
                                                        !.projectId = st.project]
              res == saveSession(st.kind, st.storage, now, updatedSession)
          IN [st EXCEPT !.kind = res.kind, !.storage = res.storage,
                        !.sessions = res.ret, !.shared = TRUE,
                        !.dropped = @ \cup res.drop]
     ELSE st

\* A render after which the effect runs when a dependency changed.
Render(st, changed) == IF changed THEN persistEffect(st) ELSE st

SetApp(st) ==
  /\ storageKind' = st.kind
  /\ storage' = st.storage
  /\ sessions' = st.sessions
  /\ currentSessionId' = st.sid
  /\ messages' = st.messages
  /\ currentMode' = st.mode
  /\ currentProject' = st.project
  /\ shared' = st.shared
  /\ dropped' = st.dropped

\* The page is (re)loaded: fresh React state, the init effect loads the list;
\* calls in flight die with the old page.
Reload ==
  LET res == loadSessions(storageKind, storage, now)
  IN /\ SetApp([AppState EXCEPT !.kind = res.kind, !.storage = res.storage,
                                !.sessions = res.ret, !.sid = NoSession,
                                !.messages = <<>>, !.mode = GeneralMode,
                                !.project = NoProject, !.shared = FALSE,
                                !.dropped = @ \cup res.drop])
     /\ isTyping' = FALSE
     /\ pending' = {}
     /\ UNCHANGED <<sideVars, now, callVars, sent, switches, lastMint>>

\* Variants of handleSendMessage: one creates a session for every message,
\* the other puts the user message in front of the list.
handleSendMessageAlwaysCreates(st, k) ==
  LET newId == ToString(now)
      newSession == [id |-> newId, title |-> Text(k), lastModified |-> now,
                     messages |-> <<>>, modeId |-> st.mode, projectId |-> st.project]
      res == saveSession(st.kind, st.storage, now, newSession)
      st1 == [st EXCEPT !.kind = res.kind, !.storage = res.storage,
                        !.sessions = res.ret, !.sid = newId,
                        !.dropped = @ \cup res.drop]
  IN [st1 EXCEPT !.messages = Append(@, UserMsg(k)), !.shared = FALSE]

handleSendMessagePrepends(st, k) ==
  LET newId == ToString(now)
      newSession == [id |-> newId, title |-> Text(k), lastModified |-> now,
                     messages |-> <<>>, modeId |-> st.mode, projectId |-> st.project]
      res == saveSession(st.kind, st.storage, now, newSession)
      st1 == IF st.sid = NoSession
             THEN [st EXCEPT !.kind = res.kind, !.storage = res.storage,
                             !.sessions = res.ret, !.sid = newId,
                             !.dropped = @ \cup res.drop]
             ELSE st
  IN [st1 EXCEPT !.messages = <<UserMsg(k)>> \o @, !.shared = FALSE]

\* handleSendMessage up to the await: creates and saves a session when none
\* is current, appends the user message, issues the backend call.
handleSendMessage(st, k) ==
  LET newId == ToString(now)
      newSession == [id |-> newId, title |-> Text(k), lastModified |-> now,
                     messages |-> <<>>, modeId |-> st.mode, projectId |-> st.project]
      res == saveSession(st.kind, st.storage, now, newSession)
      st1 == IF st.sid = NoSession
             THEN [st EXCEPT !.kind = res.kind, !.storage = res.storage,
                             !.sessions = res.ret, !.sid = newId,
                             !.dropped = @ \cup res.drop]
             ELSE st
  IN [st1 EXCEPT !.messages = Append(@, UserMsg(k)), !.shared = FALSE]

Send ==
  /\ sent < MaxMsgs
  /\ currentSessionId = NoSession => now > lastMint
  /\ LET st == handleSendMessage(AppState, sent + 1)
     IN /\ SetApp(Render(st, TRUE))
        /\ pending' = pending \cup {[n |-> sent + 1, origin |-> st.sid]}
  /\ isTyping' = TRUE
  /\ sent' = sent + 1
  /\ lastMint' = IF currentSessionId = NoSession THEN now ELSE lastMint
  /\ UNCHANGED <<sideVars, now, callVars, switches>>

\* A variant of the continuation that discards a response when the session
\* the call was sent from is no longer the current one.
RespondIfCurrent(p) ==
  /\ p \in pending
  /\ IF p.origin = currentSessionId
     THEN SetApp(Render([AppState EXCEPT !.messages = Append(@, ModelMsg(p.n)),
                                         !.shared = FALSE], TRUE))
     ELSE SetApp(AppState)
  /\ isTyping' = FALSE
  /\ pending' = pending \ {p}
  /\ UNCHANGED <<sideVars, now, callVars, sent, switches, lastMint>>

\* handleSendMessage after the await: the response of call p arrives.
Respond(p) ==
  /\ p \in pending
  /\ \E st \in {Render([AppState EXCEPT !.messages = Append(@, ModelMsg(p.n)),
                                         !.shared = FALSE], TRUE)} : SetApp(st)
  /\ isTyping' = FALSE
  /\ pending' = pending \ {p}
  /\ UNCHANGED <<sideVars, now, callVars, sent, switches, lastMint>>

\* handleLoadSession(session) for an entry of the sidebar list.
handleLoadSession(st, session) ==
  [st EXCEPT !.sid = session.id,
             !.messages = session.messages,
             !.mode = IF session.modeId \in ModeIds THEN session.modeId ELSE @,
             !.project = IF session.projectId \in ProjectIds
                         THEN session.projectId ELSE NoProject,
             !.shared = TRUE]

\* A click on entry i of the sidebar: the four setters of handleLoadSession,
\* then the render; the effect runs when one of its dependencies changed
\* (the id, the identity of the message array, the mode or the project).
loadSessionChanges(i) ==
  LET st == handleLoadSession(AppState, sessions[i])
  IN \/ st.sid # currentSessionId
     \/ ~shared
     \/ st.mode # currentMode
     \/ st.project # currentProject

loadSessionClick(i) ==
  Render(handleLoadSession(AppState, sessions[i]), loadSessionChanges(i))

LoadSession(i) ==
  /\ i \in 1..Len(sessions)
  /\ SetApp(loadSessionClick(i))
  /\ UNCHANGED <<sideVars, now, callVars, isTyping, pending, sent, switches, lastMint>>

handleNewChat(st) ==
  [st EXCEPT !.sid = NoSession, !.messages = <<>>, !.mode = GeneralMode,
             !.project = NoProject, !.shared = FALSE]

NewChat ==
  /\ SetApp(Render(handleNewChat(AppState), TRUE))
  /\ UNCHANGED <<sideVars, now, callVars, isTyping, pending, sent, switches, lastMint>>

\* A variant of handleDeleteSession that resets the App whichever session is
\* deleted.
handleDeleteSessionAlwaysResets(st, id) ==
  LET res == deleteSession(st.kind, st.storage, now, id)
      st1 == [st EXCEPT !.kind = res.kind, !.storage = res.storage,
                        !.sessions = res.ret, !.shared = FALSE,
                        !.dropped = @ \cup res.drop]
  IN handleNewChat(st1)

\* handleDeleteSession(id) for an entry of the sidebar list.
handleDeleteSession(st, id) ==
  LET res == deleteSession(st.kind, st.storage, now, id)
      st1 == [st EXCEPT !.kind = res.kind, !.storage = res.storage,
                        !.sessions = res.ret, !.shared = FALSE,
                        !.dropped = @ \cup res.drop]
  IN IF st.sid = id THEN handleNewChat(st1) ELSE st1

DeleteSession(i) ==
  /\ i \in 1..Len(sessions)
  /\ SetApp(Render(handleDeleteSession(AppState, sessions[i].id),
                   currentSessionId = sessions[i].id))
  /\ UNCHANGED <<sideVars, now, callVars, isTyping, pending, sent, switches, lastMint>>

\* setMode / setProject from the mode and project menus.
SetMode(m) ==
  /\ switches < MaxSwitches
  /\ m # currentMode
  /\ SetApp(Render([AppState EXCEPT !.mode = m], TRUE))
  /\ switches' = switches + 1
  /\ UNCHANGED <<sideVars, now, callVars, isTyping, pending, sent, lastMint>>

SetProject(pr) ==
  /\ switches < MaxSwitches
  /\ pr # currentProject
  /\ SetApp(Render([AppState EXCEPT !.project = pr], TRUE))
  /\ switches' = switches + 1
  /\ UNCHANGED <<sideVars, now, callVars, isTyping, pending, sent, lastMint>>

AppTick(t) ==
  /\ t > now
  /\ now' = t
  /\ UNCHANGED <<sideVars, storeVars, callVars, appVars>>

DoRespond == \E p \in pending : Respond(p)
DoLoadSession == \E i \in 1..Len(sessions) : LoadSession(i)
DoDeleteSession == \E i \in 1..Len(sessions) : DeleteSession(i)
DoSetMode == \E m \in ModeChoices : SetMode(m)
DoSetProject == \E pr \in ProjectChoices : SetProject(pr)
DoAppTick == \E t \in AppInstants : AppTick(t)

NextApp ==
  \/ Reload \/ Send \/ DoRespond \/ DoLoadSession \/ NewChat
  \/ DoDeleteSession \/ DoSetMode \/ DoSetProject \/ DoAppTick

SpecApp == Init /\ [][NextApp]_vars

\* -------------------------------------------------- one life of the page
\* The App between two page loads (a reload ends the JavaScript context and
\* with it the continuations of the calls in flight). sendMessageToGemini
\* returns for every outcome of the backend call, so once the backend has
\* answered or failed, the continuation of handleSendMessage runs.
RespondTo(n) == \E p \in pending : p.n = n /\ Respond(p)

NextPage ==
  \/ Send \/ DoRespond \/ DoLoadSession \/ NewChat
  \/ DoDeleteSession \/ DoSetMode \/ DoSetProject \/ DoAppTick

SpecPage == Init /\ [][NextPage]_vars /\ \A n \in 1..MaxMsgs : WF_vars(RespondTo(n))

\* ------------------------------------ a store written by an older release
\* localStorage outlives the release that wrote it: the store holds a session
\* whose mode and project are no longer in MODES and MOCK_PROJECTS.
RetiredMode == "Retired Mode"
RetiredProject == "p0"
LegacySession ==
  [id |-> "legacy", title |-> Text(0), lastModified |-> 0,
   messages |-> <<UserMsg(0), ModelMsg(0)>>, modeId |-> RetiredMode,
   projectId |-> RetiredProject]

InitLegacy ==
  /\ input = <<>>
  /\ storageKind = "array"
  /\ storage = <<LegacySession>>
  /\ InitState

SpecLegacy == InitLegacy /\ [][NextApp]_vars

\* -------------------------------------------------- the system instruction
GEMINI == "Gemini 2.5"
DEEPSEEK == "Deepseek R1"
FAL_AI == "Fal.ai (Nano Banana)"
TAVILY == "Tavily Search"

\* The mode registry, in its order; the persona texts are cut to their openings.
MODES ==
  << [id |-> "General", name |-> "AI Assistant", provider |-> GEMINI,
      systemPrompt |-> "You are Axora, a general AI assistant."],
     [id |-> "Landing Page Creator", name |-> "Landing Page Creator", provider |-> DEEPSEEK,
      systemPrompt |-> "You are a Conversion Rate Optimization (CRO) expert."],
     [id |-> "Ebook Architect", name |-> "Ebook Architect", provider |-> DEEPSEEK,
      systemPrompt |-> "You are an expert Ghostwriter and Editor."],
     [id |-> "Visual Studio", name |-> "Visual Studio", provider |-> FAL_AI,
      systemPrompt |-> "You are a Visual Prompt Engineer connected to Fal.ai (Nano Banana Pro)."],
     [id |-> "Market Research", name |-> "Market Research", provider |-> TAVILY,
      systemPrompt |-> "You are a Senior Market Analyst connected to Tavily."] >>
Modes == {MODES[i] : i \in 1..Len(MODES)}

\* The sequences over S of length up to n.
SeqsUpTo(S, n) == UNION {[1..k -> S] : k \in 0..n}
\* An optional value: absent (undefined), or present.
Absent == <<>>
Some(x) == <<x>>
\* JavaScript truthiness of a string or of an optional field ("" stands for a
\* field that is undefined or empty).
Truthy(v) == v # ""

\* A private-memory entry of a project, and a project (null: no project).
MemoryEntry(instructions, data, lastState) ==
  [specificInstructions |-> instructions, data |-> data, lastState |-> lastState]
Project(id, name, description, summary, keyFacts, modeContext) ==
  [id |-> id, name |-> name, description |-> description,
   memory |-> [sharedContext |-> [summary |-> summary, keyFacts |-> keyFacts],
               modeContext |-> modeContext]]
NullProject == [id |-> NoProject]

\* The project registry: p1 has private memory for the landing-page and ebook
\* modes, p2 for market research.
MOCK_PROJECTS ==
  << Project("p1", "Personal Brand", "Building a personal brand on LinkedIn.",
             "User is a Senior React Developer.", "Audience, Goals",
             [m \in {"Landing Page Creator", "Ebook Architect"} |->
                IF m = "Landing Page Creator"
                THEN MemoryEntry("Focus on minimal aesthetic.", "", "Hero section draft completed.")
                ELSE MemoryEntry("Tone should be slightly contrarian.", "outline", "")]),
     Project("p2", "SaaS Startup Flow", "A project management tool.",
             "Flow is a B2B SaaS.", "USP, Pricing",
             [m \in {"Market Research"} |->
                MemoryEntry("Track competitors.", "competitors", "")]) >>

\* A template string is the sequence of its lines; a line is its fixed text
\* (label) and the values interpolated into it.
Line(label, values) == [label |-> label, values |-> values]
\* JSON.stringify(v, null, 2)
Json(v) == <<"json", v>>

ModeMemoryBlock(mode, privateMem) ==
  <<Line("MODE MEMORY (Visible only to)", <<mode.name>>)>>
  \o (IF Truthy(privateMem.specificInstructions)
      THEN <<Line("Specific Instructions", <<privateMem.specificInstructions>>)>> ELSE <<>>)
  \o (IF Truthy(privateMem.data)
      THEN <<Line("Structured Data", Json(privateMem.data))>> ELSE <<>>)
  \o (IF Truthy(privateMem.lastState)
      THEN <<Line("Last Known State", <<privateMem.lastState>>)>> ELSE <<>>)

NoMemoryMarker == Line("(No specific memory exists for this mode yet)", <<>>)

\* Variants of the lookup below: a mode without an entry of its own gets the
\* entry of another mode; the marker is appended whether or not there is an
\* entry.
privateMemoryBorrowed(mode, memory) ==
  LET keys == DOMAIN memory.modeContext
  IN IF mode.id \in keys
     THEN ModeMemoryBlock(mode, memory.modeContext[mode.id])
     ELSE IF keys # {}
          THEN ModeMemoryBlock(mode, memory.modeContext[CHOOSE k \in keys : TRUE])
          ELSE <<NoMemoryMarker>>

privateMemoryAlwaysMarked(mode, memory) ==
  (IF mode.id \in DOMAIN memory.modeContext
   THEN ModeMemoryBlock(mode, memory.modeContext[mode.id])
   ELSE <<>>) \o <<NoMemoryMarker>>

\* const privateMem = project.memory.modeContext[mode.id]; if (privateMem) ...
privateMemory(mode, memory) ==
  IF mode.id \in DOMAIN memory.modeContext
  THEN ModeMemoryBlock(mode, memory.modeContext[mode.id])
  ELSE <<NoMemoryMarker>>

constructContextualSystemPrompt(mode, project) ==
  LET persona == << Line("You are running in mode", <<mode.name, mode.provider>>),
                    Line("systemPrompt", <<mode.systemPrompt>>) >>
  IN IF project = NullProject
     THEN persona
     ELSE LET memory == project.memory
              sharedMem == << Line("ACTIVE PROJECT", <<project.name>>),
                              Line("Description", <<project.description>>),
                              Line("SHARED MEMORY (Visible to all modes)", <<>>),
                              Line("Summary", <<memory.sharedContext.summary>>),
                              Line("Key Facts", Json(memory.sharedContext.keyFacts)) >>
          IN persona \o sharedMem \o privateMemory(mode, memory)
             \o <<Line("Use this structured context to inform your response.", <<>>)>>

\* Projects to build the instruction for: they differ in the summary and in
\* which of two modes have private memory, with which fields.
ContextModes == {"Landing Page Creator", "Market Research"}
Entries ==
  { MemoryEntry("", "", ""), MemoryEntry("Focus on minimal aesthetic.", "", ""),
    MemoryEntry("", "outline", ""),
    MemoryEntry("Track competitors.", "competitors", "Hero section draft completed.") }
Projects ==
  { Project("p", "Personal Brand", "Building a personal brand.", summary, "Audience, Goals",
            modeContext) :
      summary \in {"User is a Senior React Developer.", "Flow is a B2B SaaS."},
      modeContext \in UNION {[keys -> Entries] : keys \in SUBSET ContextModes} }

\* One instruction is built for each of two projects, under the same mode.
Build ==
  /\ output = <<>>
  /\ output' = << [a |-> constructContextualSystemPrompt(input.mode, input.a),
                   b |-> constructContextualSystemPrompt(input.mode, input.b)] >>
  /\ UNCHANGED <<now, storeVars, callVars, appVars, tabVars, input>>

InitBuild ==
  /\ storageKind = "missing"
  /\ storage = <<>>
  /\ InitState
  /\ input \in [mode : Modes, a : Projects \cup {NullProject}, b : Projects]

SpecBuild == InitBuild /\ [][Build]_vars

\* ------------------------------------------------------ the text export
\* role.toUpperCase()
ToUpperCase(role) ==
  IF role = "user" THEN "USER" ELSE IF role = "model" THEN "MODEL" ELSE "SYSTEM"
\* new Date(ms).toLocaleString() and toLocaleTimeString()
ToLocaleString(ms) == <<"date and time of", ToString(ms)>>
ToLocaleTimeString(ms) == <<"time of", ToString(ms)>>

\* A grounding chunk: with a web source that has a URI, with a web source
\* without one (uri ""), or without a web source.
WebChunk(uri) == [hasWeb |-> TRUE, uri |-> uri]
OtherChunk == [hasWeb |-> FALSE, uri |-> ""]
HasUri(chunk) == chunk.hasWeb /\ Truthy(chunk.uri)

\* The lines of the Sources block of a message whose grounding metadata has
\* chunks: the header, then one line per chunk with a web URI, numbered by
\* the chunk's position among all chunks.
SourceLine(i, chunk) == Line("source", <<ToString(i), chunk.uri>>)
RECURSIVE sourceLinesFrom(_, _)
sourceLinesFrom(chunks, i) ==
  IF i > Len(chunks) THEN <<>>
  ELSE (IF HasUri(chunks[i]) THEN <<SourceLine(i, chunks[i])>> ELSE <<>>)
       \o sourceLinesFrom(chunks, i + 1)
sourcesBlock(chunks) == <<Line("[Sources Used]:", <<>>)>> \o sourceLinesFrom(chunks, 1)

\* The lines of one message. attachments and groundingMetadata are optional,
\* and so is groundingChunks inside the metadata.
messageLines(msg) ==
  << Line("[time] ROLE:", ToLocaleTimeString(msg.timestamp) \o <<ToUpperCase(msg.role)>>),
     Line("content", <<msg.content>>) >>
  \o (IF msg.attachments # Absent /\ Len(msg.attachments[1]) > 0
      THEN <<Line("[Attached file(s)]", <<ToString(Len(msg.attachments[1]))>>)>>
      ELSE <<>>)
  \o (IF msg.groundingMetadata # Absent /\ msg.groundingMetadata[1].groundingChunks # Absent
      THEN sourcesBlock(msg.groundingMetadata[1].groundingChunks[1])
      ELSE <<>>)
  \o <<Line("----------------------------------------", <<>>)>>

RECURSIVE allMessageLines(_)
allMessageLines(msgs) ==
  IF msgs = <<>> THEN <<>> ELSE messageLines(Head(msgs)) \o allMessageLines(Tail(msgs))

\* The content of the file downloadSessionAsTxt offers for download.
downloadSessionAsTxt(session) ==
  << Line("AXORA ENIGMA SYSTEM - SESSION LOG", <<>>),
     Line("SESSION ID", <<session.id>>),
     Line("TITLE", <<session.title>>),
     Line("DATE", ToLocaleString(session.lastModified)),
     Line("MODE", <<session.modeId>>),
     Line("PROJECT", <<IF session.projectId # NoProject THEN session.projectId ELSE "None">>) >>
  \o allMessageLines(session.messages)

\* Sessions to export: a user message, then a message of any role with or
\* without attachments and grounding metadata.
Chunks == {WebChunk("http://x.com"), WebChunk("http://y.org"), WebChunk(""), OtherChunk}
Groundings ==
  {Absent, Some([groundingChunks |-> Absent])}
  \cup {Some([groundingChunks |-> Some(chunks)]) : chunks \in SeqsUpTo(Chunks, MaxChunks)}
ExportMessage(role, content, attachments, grounding) ==
  [role |-> role, content |-> content, type |-> "text", timestamp |-> 1,
   attachments |-> attachments, groundingMetadata |-> grounding]
ExportSessions ==
  { [id |-> "0", title |-> "hi", lastModified |-> 1, modeId |-> "Market Research",
     projectId |-> projectId,
     messages |-> << ExportMessage("user", "hi", Some(<<>>), Absent),
                     ExportMessage(role, "hello", attachments, grounding) >>] :
      projectId \in {NoProject, "p2"}, role \in {"user", "model", "system"},
      attachments \in {Absent, Some(<<>>), Some(<<[type |-> "image/png", data |-> "AAAA",
                                                  name |-> "generated.png"]>>)},
      grounding \in Groundings }

Export ==
  /\ output = <<>>
  /\ output' = <<downloadSessionAsTxt(input)>>
  /\ UNCHANGED <<now, storeVars, callVars, appVars, tabVars, input>>

InitExport ==
  /\ storageKind = "missing"
  /\ storage = <<>>
  /\ InitState
  /\ input \in ExportSessions

SpecExport == InitExport /\ [][Export]_vars

\* ------------------------------------------------------ the routing layer
THINKING_BUDGET == 1024
NoKeyText ==
  <<"Error: No API Key found. Please set REACT_APP_API_KEY or process.env.API_KEY.">>

\* Parts of a request or of a response candidate.
TextPart(text) == [kind |-> "text", mimeType |-> "", data |-> text]
InlinePart(mimeType, data) == [kind |-> "inlineData", mimeType |-> mimeType, data |-> data]

\* What the backend does with an outbound call: it throws an Error with a
\* message, or it answers with a response whose candidates field is
\* undefined, empty, or holds one candidate (parts, optional grounding).
Throws(message) ==
  [throws |-> TRUE, message |-> message, hasCandidates |-> FALSE, candidates |-> <<>>]
Answers(hasCandidates, candidates) ==
  [throws |-> FALSE, message |-> "", hasCandidates |-> hasCandidates,
   candidates |-> candidates]
Candidate(parts, grounding) == [parts |-> parts, groundingMetadata |-> grounding]

\* The text getter of a response: the text of the first candidate's text
\* parts, "" (falsy) when there is none.
ResponseText(response) ==
  IF response.hasCandidates /\ Len(response.candidates) > 0
  THEN LET texts == SelectSeq(response.candidates[1].parts, LAMBDA part : part.kind = "text")
       IN IF Len(texts) > 0 THEN texts[1].data ELSE ""
  ELSE ""

\* An outbound call to the backend.
OutboundCall(api, model, history, contents, systemInstruction, tools, thinkingBudget, aspectRatio) ==
  [api |-> api, model |-> model, history |-> history, contents |-> contents,
   systemInstruction |-> systemInstruction, tools |-> tools,
   thinkingBudget |-> thinkingBudget, aspectRatio |-> aspectRatio]

\* What sendMessageToGemini returns; images and groundingMetadata are optional.
Result(text, images, groundingMetadata) ==
  [text |-> text, images |-> images, groundingMetadata |-> groundingMetadata]
\* What one run of it does: the outbound calls it issued and what it returned.
Run(calls, result) == [calls |-> calls, result |-> result]

\* A variant of the catch block that reports the error without the provider.
SystemErrorAnonymous(mode, message) ==
  Result(<<"System Error", message>>, Absent, Absent)

\* The catch block.
SystemError(mode, message) ==
  Result(<<"System Error", mode.provider, message>>, Absent, Absent)
CannotReadContent == "Cannot read properties of undefined (reading 'content')"

\* A variant of the mapping below that hands every role through as it is.
chatHistoryKeepsRoles(history) ==
  [i \in 1..Len(history) |-> [role |-> history[i].role, text |-> history[i].content]]

\* history.map(msg => ({role, parts: [{text: msg.content}]}))
chatHistory(history) ==
  [i \in 1..Len(history) |->
     [role |-> IF history[i].role = "user" THEN "user" ELSE "model",
      text |-> history[i].content]]

\* The image branch: the last text part replaces the default text, every
\* inline part becomes a data URL of the requested format.
falBranch(mode, newMessage, imageSettings, backend) ==
  LET aspectRatio == IF imageSettings # Absent /\ Truthy(imageSettings[1].aspectRatio)
                     THEN imageSettings[1].aspectRatio ELSE "1:1"
      format == IF imageSettings # Absent /\ Truthy(imageSettings[1].format)
                THEN imageSettings[1].format ELSE "image/png"
      call == OutboundCall("models.generateContent", "gemini-2.5-flash-image", <<>>,
                           <<TextPart(newMessage)>>, Absent, {}, Absent, aspectRatio)
      parts == IF backend.hasCandidates THEN backend.candidates[1].parts ELSE <<>>
      inline == SelectSeq(parts, LAMBDA part : part.kind = "inlineData")
      texts == SelectSeq(parts, LAMBDA part : part.kind = "text" /\ Truthy(part.data))
      images == [i \in 1..Len(inline) |-> <<"data:", format, ";base64,", inline[i].data>>]
      textResponse == IF Len(texts) > 0
                      THEN <<texts[Len(texts)].data>>
                      ELSE <<"Generated with Fal.ai (Nano Banana Pro emulation) in",
                             aspectRatio, "ratio:">>
  IN Run(<<call>>,
         IF backend.throws THEN SystemError(mode, backend.message)
         ELSE IF backend.hasCandidates /\ Len(backend.candidates) = 0
              THEN SystemError(mode, CannotReadContent)
              ELSE Result(textResponse, Some(images), Absent))

\* The search branch.
tavilyBranch(mode, systemInstruction, newMessage, backend) ==
  LET call == OutboundCall("models.generateContent", "gemini-2.5-flash", <<>>,
                           <<TextPart(newMessage)>>, Some(systemInstruction),
                           {"googleSearch"}, Absent, "")
      text == ResponseText(backend)
  IN Run(<<call>>,
         IF backend.throws THEN SystemError(mode, backend.message)
         ELSE Result(IF Truthy(text) THEN <<text>>
                     ELSE <<"No results found via Research API.">>,
                     Absent,
                     IF backend.hasCandidates /\ Len(backend.candidates) > 0
                     THEN backend.candidates[1].groundingMetadata ELSE Absent))

\* A variant of the high-reasoning branch that falls through to the plain chat.
deepseekBranchPlain(mode, systemInstruction, history, newMessage, backend) ==
  LET call == OutboundCall("chat.sendMessage", "gemini-2.5-flash", chatHistory(history),
                           <<TextPart(newMessage)>>, Some(systemInstruction), {}, Absent, "")
  IN Run(<<call>>,
         IF backend.throws THEN SystemError(mode, backend.message)
         ELSE Result(<<ResponseText(backend)>>, Absent, Absent))

\* The high-reasoning branch.
deepseekBranch(mode, systemInstruction, history, newMessage, backend) ==
  LET call == OutboundCall("chat.sendMessage", "gemini-3-pro-preview", chatHistory(history),
                           <<TextPart(newMessage)>>, Some(systemInstruction), {},
                           Some(THINKING_BUDGET), "")
  IN Run(<<call>>,
         IF backend.throws THEN SystemError(mode, backend.message)
         ELSE Result(<<ResponseText(backend)>>, Absent, Absent))

\* The general branch: a one-shot multi-part call when there are
\* attachments, the chat otherwise.
generalBranch(mode, systemInstruction, history, newMessage, attachments, backend) ==
  LET oneShot == OutboundCall("models.generateContent", "gemini-2.5-flash", <<>>,
                              [i \in 1..Len(attachments) |->
                                 InlinePart(attachments[i].type, attachments[i].data)]
                              \o <<TextPart(newMessage)>>,
                              Some(systemInstruction), {}, Absent, "")
      chat == OutboundCall("chat.sendMessage", "gemini-2.5-flash", chatHistory(history),
                           <<TextPart(newMessage)>>, Some(systemInstruction), {}, Absent, "")
  IN Run(<<IF Len(attachments) > 0 THEN oneShot ELSE chat>>,
         IF backend.throws THEN SystemError(mode, backend.message)
         ELSE Result(<<ResponseText(backend)>>, Absent, Absent))

routeByProvider(history, mode, project, newMessage, attachments, imageSettings, backend) ==
  LET systemInstruction == constructContextualSystemPrompt(mode, project)
  IN IF mode.provider = FAL_AI
     THEN falBranch(mode, newMessage, imageSettings, backend)
     ELSE IF mode.provider = TAVILY
     THEN tavilyBranch(mode, systemInstruction, newMessage, backend)
     ELSE IF mode.provider = DEEPSEEK
     THEN deepseekBranch(mode, systemInstruction, history, newMessage, backend)
     ELSE generalBranch(mode, systemInstruction, history, newMessage, attachments, backend)

\* A variant without the credential check.
sendMessageToGeminiUnchecked(apiKey, history, mode, project, newMessage, attachments, imageSettings, backend) ==
  routeByProvider(history, mode, project, newMessage, attachments, imageSettings, backend)

\* apiKey is process.env.API_KEY ("" when unset); backend is what the backend
\* does with the outbound call, should one be issued.
sendMessageToGemini(apiKey, history, mode, project, newMessage, attachments, imageSettings, backend) ==
  IF ~Truthy(apiKey)
  THEN Run(<<>>, Result(NoKeyText, Absent, Absent))
  ELSE routeByProvider(history, mode, project, newMessage, attachments, imageSettings,
                       backend)

\* handleSendMessage around the call: the user message, and the message made
\* of the response.
userMessage(text, attachments) ==
  [role |-> "user", content |-> text, type |-> "text", attachments |-> attachments]
aiMessage(response) ==
  [role |-> "model", content |-> response.text,
   type |-> IF response.images # Absent THEN "image" ELSE "text",
   attachments |-> IF response.images # Absent
                   THEN [i \in 1..Len(response.images[1]) |->
                           [type |-> "image/png", data |-> response.images[1][i],
                            name |-> "generated.png"]]
                   ELSE <<>>,
   groundingMetadata |-> response.groundingMetadata]

\* The arguments of one handleSendMessage run and its environment.
ApiKeys == {"", "key"}
PriorMessages ==
  { [role |-> "user", content |-> "hi", type |-> "text"],
    [role |-> "model", content |-> "hello", type |-> "text"],
    [role |-> "system", content |-> "note", type |-> "text"] }
Uploads == { [type |-> "image/png", data |-> "AAAA"], [type |-> "text/plain", data |-> "BBBB"] }
ImageSettingsChoices == {Absent, Some([aspectRatio |-> "16:9", format |-> "image/jpeg"])}
Backends ==
  {Throws("quota exceeded"), Answers(FALSE, <<>>), Answers(TRUE, <<>>)}
  \cup {Answers(TRUE, <<Candidate(parts, Absent)>>) :
          parts \in {<<>>, <<TextPart("answer")>>, <<InlinePart("image/png", "iVBOR")>>,
                     <<TextPart("answer"), InlinePart("image/png", "iVBOR")>>}}
  \cup {Answers(TRUE, <<Candidate(<<TextPart("answer")>>, Some("grounding"))>>)}
AskInputs ==
  [apiKey : ApiKeys, messages : SeqsUpTo(PriorMessages, MaxHistory), mode : Modes,
   project : {NullProject} \cup {MOCK_PROJECTS[i] : i \in 1..Len(MOCK_PROJECTS)},
   text : {"make it shorter"}, attachments : SeqsUpTo(Uploads, MaxAttachments),
   imageSettings : ImageSettingsChoices, backend : Backends]

\* handleSendMessage from the user message on, on the message list it closes
\* over: the call gets that list, the screen gets the two new messages.
Ask ==
  /\ output = <<>>
  /\ LET run == sendMessageToGemini(input.apiKey, input.messages, input.mode, input.project,
                                    input.text, input.attachments, input.imageSettings,
                                    input.backend)
     IN output' = << [calls |-> run.calls, result |-> run.result,
                      messages |-> input.messages
                                   \o <<userMessage(input.text, input.attachments),
                                        aiMessage(run.result)>>,
                      isTyping |-> FALSE] >>
  /\ UNCHANGED <<now, storeVars, callVars, appVars, tabVars, input>>

InitAsk ==
  /\ storageKind = "missing"
  /\ storage = <<>>
  /\ InitState
  /\ input \in AskInputs

SpecAsk == InitAsk /\ [][Ask]_vars

\* ------------------------------------------- two App instances, one store
\* Each handler and each effect run is one step: the store calls are
\* synchronous, so no step of another instance falls inside them.
TabInstants == 0..MaxMs

\* The React state of instance t together with the storage.
TabState(t) ==
  [kind |-> storageKind, storage |-> storage, sessions |-> tabs[t].sessions,
   sid |-> tabs[t].sid, messages |-> tabs[t].messages, mode |-> tabs[t].mode,
   project |-> tabs[t].project, shared |-> tabs[t].shared, dropped |-> dropped]

\* The condition under which the persist effect calls saveSession.
EffectSaves(st) ==
  st.sid # NoSession /\ Len(st.messages) > 0 /\ findIndex(st.sessions, st.sid) >= 1

\* Instance t renders state st (the effect runs when a dependency changed).
SetTab(t, st, changed, typing, inFlight) ==
  LET done == Render(st, changed)
  IN /\ storageKind' = done.kind
     /\ storage' = done.storage
     /\ dropped' = done.dropped
     /\ tabs' = [tabs EXCEPT ![t] =
                   [sessions |-> done.sessions, sid |-> done.sid,
                    messages |-> done.messages, mode |-> done.mode,
                    project |-> done.project, shared |-> done.shared,
                    isTyping |-> typing, pending |-> inFlight]]
     /\ lastSave' = IF changed /\ EffectSaves(st)
                    THEN <<[tab |-> t, id |-> st.sid]>> ELSE <<>>

TabReload(t) ==
  LET res == loadSessions(storageKind, storage, now)
  IN /\ SetTab(t, [TabState(t) EXCEPT !.kind = res.kind, !.storage = res.storage,
                                      !.sessions = res.ret, !.sid = NoSession,
                                      !.messages = <<>>, !.mode = GeneralMode,
                                      !.project = NoProject, !.shared = FALSE,
                                      !.dropped = @ \cup res.drop],
               FALSE, FALSE, {})
     /\ UNCHANGED <<now, callVars, appVars, removed, fnVars>>

TabSend(t) ==
  /\ sent < MaxTabMsgs
  /\ tabs[t].sid = NoSession => now > lastMint
  /\ LET st == handleSendMessage(TabState(t), sent + 1)
     IN SetTab(t, st, TRUE, TRUE,
               tabs[t].pending \cup {[n |-> sent + 1, origin |-> st.sid]})
  /\ sent' = sent + 1
  /\ lastMint' = IF tabs[t].sid = NoSession THEN now ELSE lastMint
  /\ UNCHANGED <<now, callVars, sessions, currentSessionId, messages, currentMode,
                 currentProject, isTyping, pending, shared, switches, removed, fnVars>>

TabRespond(t, p) ==
  /\ p \in tabs[t].pending
  /\ SetTab(t, [TabState(t) EXCEPT !.messages = Append(@, ModelMsg(p.n)),
                                   !.shared = FALSE],
            TRUE, FALSE, tabs[t].pending \ {p})
  /\ UNCHANGED <<now, callVars, appVars, removed, fnVars>>

TabLoadSession(t, i) ==
  /\ i \in 1..Len(tabs[t].sessions)
  /\ LET st == handleLoadSession(TabState(t), tabs[t].sessions[i])
         changed == \/ st.sid # tabs[t].sid
                    \/ ~tabs[t].shared
                    \/ st.mode # tabs[t].mode
                    \/ st.project # tabs[t].project
     IN SetTab(t, st, changed, tabs[t].isTyping, tabs[t].pending)
  /\ UNCHANGED <<now, callVars, appVars, removed, fnVars>>

TabNewChat(t) ==
  /\ SetTab(t, handleNewChat(TabState(t)), TRUE, tabs[t].isTyping, tabs[t].pending)
  /\ UNCHANGED <<now, callVars, appVars, removed, fnVars>>

TabDeleteSession(t, i) ==
  /\ i \in 1..Len(tabs[t].sessions)
  /\ LET id == tabs[t].sessions[i].id
     IN /\ SetTab(t, handleDeleteSession(TabState(t), id), tabs[t].sid = id,
                  tabs[t].isTyping, tabs[t].pending)
        /\ removed' = removed \cup {id}
  /\ UNCHANGED <<now, callVars, appVars, fnVars>>

TabTick(c) ==
  /\ c > now
  /\ now' = c
  /\ lastSave' = <<>>
  /\ UNCHANGED <<storeVars, callVars, appVars, tabs, removed, fnVars>>

DoTabReload == \E t \in Tabs : TabReload(t)
DoTabSend == \E t \in Tabs : TabSend(t)
DoTabRespond == \E t \in Tabs : \E p \in tabs[t].pending : TabRespond(t, p)
DoTabLoadSession == \E t \in Tabs : \E i \in 1..Len(tabs[t].sessions) : TabLoadSession(t, i)
DoTabNewChat == \E t \in Tabs : TabNewChat(t)
DoTabDeleteSession ==
  \E t \in Tabs : \E i \in 1..Len(tabs[t].sessions) : TabDeleteSession(t, i)
DoTabTick == \E c \in TabInstants : TabTick(c)

NextTabs ==
  \/ DoTabReload \/ DoTabSend \/ DoTabRespond \/ DoTabLoadSession
  \/ DoTabNewChat \/ DoTabDeleteSession \/ DoTabTick

SpecTabs == Init /\ [][NextTabs]_vars

\* ------------------------------------------------------------ properties
\* A step is a store call exactly when the clock stands still; op' names it.
Call(name) == now' = now /\ op'.name = name

Expired(s, t) == t - s.lastModified >= RETENTION_MS
Unique(seq) == \A i, j \in 1..Len(seq) : seq[i].id = seq[j].id => i = j
Descending(seq) ==
  \A i, j \in 1..Len(seq) : i < j => seq[i].lastModified >= seq[j].lastModified
IndexOf(seq, id) == CHOOSE i \in 1..Len(seq) : seq[i].id = id

\* The indices of the stored array that are within retention at time t, and
\* the place list() gives each of them: after every live entry that is newer,
\* or equally old and stored earlier.
Live(t) == {i \in 1..Len(storage) : ~Expired(storage[i], t)}
Precedes(i, j) ==
  \/ storage[i].lastModified > storage[j].lastModified
  \/ storage[i].lastModified = storage[j].lastModified /\ i < j
Rank(I, i) == 1 + Cardinality({j \in I : Precedes(j, i)})

\* C1: a list() at clock value now leaves every stored session whose age is
\* RETENTION_MS or more (an age of exactly RETENTION_MS included) out of the
\* returned list and out of the stored list.
C1_Retention ==
  [][Call("list") =>
       \A i \in 1..Len(storage) :
          Expired(storage[i], now) =>
             /\ storage[i].id \notin SeqIds(ret')
             /\ storage[i].id \notin SeqIds(storage')]_vars

\* A list() that dropped the latest inserted session at an age of exactly
\* RETENTION_MS and still returned a younger one.
C1_Witness ==
  /\ op.name = "list"
  /\ lastIns # <<>>
  /\ lastIns[1].id \in drop
  /\ now - lastIns[1].at = RETENTION_MS
  /\ ret # <<>>

\* C2: every list() result is in descending order of lastModified, and
\* sessions with equal lastModified keep the relative order they had in the
\* stored list.
C2_Sorted ==
  [][Call("list") =>
       /\ Descending(ret')
       /\ \A i, j \in 1..Len(ret') :
            (i < j /\ ret'[i].lastModified = ret'[j].lastModified)
              => IndexOf(storage, ret'[i].id) < IndexOf(storage, ret'[j].id)]_vars

\* A list() that reordered three stored sessions, two of them equally old.
C2_Witness ==
  /\ op.name = "list"
  /\ Len(ret) = 3
  /\ ret # storage
  /\ \E i \in 1..2 : ret[i].lastModified = ret[i + 1].lastModified

\* C3 as claimed: among sessions with equal lastModified, list() puts the
\* session inserted earlier before the session inserted later (here: before
\* the latest inserted session).
C3_InsertionOrder ==
  (op.name = "list" /\ lastIns # <<>>) =>
     \A i, j \in 1..Len(ret) :
        (/\ ret[j].id = lastIns[1].id
         /\ ret[i].id # ret[j].id
         /\ ret[i].lastModified = ret[j].lastModified) => i < j

\* C3 amended: among sessions with equal lastModified, list() keeps the order
\* of the stored list, where an insertion goes to the front: the latest
\* inserted session, while it carries its insertion time, comes before every
\* session with the same lastModified.
C3_LatestInsertFirst ==
  (op.name = "list" /\ lastIns # <<>>) =>
     \A i, j \in 1..Len(ret) :
        (/\ ret[j].id = lastIns[1].id
         /\ ret[j].lastModified = lastIns[1].at
         /\ ret[i].id # ret[j].id
         /\ ret[i].lastModified = ret[j].lastModified) => j < i

\* A list() that returned the latest inserted session ahead of two sessions
\* with the same lastModified.
C3_Witness ==
  /\ op.name = "list"
  /\ lastIns # <<>>
  /\ Len(ret) = 3
  /\ ret[1].id = lastIns[1].id
  /\ ret[1].lastModified = lastIns[1].at
  /\ ret[2].lastModified = ret[1].lastModified
  /\ ret[3].lastModified = ret[1].lastModified

\* C4: the stored list and every returned list hold at most one session per
\* id; saving an id twice leaves one entry for it.
C4_UniqueIds == Unique(storage) /\ Unique(ret)

\* "b" was inserted and saved again with the same content at the same
\* instant, and the store holds it once.
C4_Witness ==
  /\ op.name = "save"
  /\ op.id = "b"
  /\ op.index >= 1
  /\ lastIns = <<[id |-> "b", at |-> now]>>
  /\ Cardinality({i \in 1..Len(storage) : storage[i].id = "b"}) = 1
  /\ Len(storage) = 3

\* C5: save(session) replaces the entry with the same id at its place in the
\* loaded (retention-filtered, newest-first) list, or else inserts the session
\* as the first element; every other unexpired entry is kept unchanged at its
\* relative place, and the returned list is the stored list.
C5_Upsert ==
  [][Call("save") =>
       LET id == op'.id
           others == {i \in Live(now) : storage[i].id # id}
           found == \E i \in Live(now) : storage[i].id = id
       IN /\ ret' = storage'
          /\ Len(ret') = Cardinality(Live(now)) + (IF found THEN 0 ELSE 1)
          /\ found =>
               \A i \in Live(now) : storage[i].id = id => ret'[Rank(Live(now), i)].id = id
          /\ ~found => ret'[1].id = id
          /\ \A i \in others :
               ret'[Rank(Live(now), i) + (IF found THEN 0 ELSE 1)] = storage[i]]_vars

\* A save that replaced the second of three entries, where it stays although
\* it is now the newest.
C5_Witness ==
  /\ op.name = "save"
  /\ op.index = 2
  /\ Len(storage) = 3
  /\ storage[2].id = op.id
  /\ storage[2].lastModified > storage[1].lastModified

\* C6: a list() after save(S), S not yet at retention age, returns an entry
\* with S's id, title, messages, modeId and projectId whose lastModified is
\* the clock value of the save, whatever lastModified the caller supplied.
C6_RoundTrip ==
  [][(op.name = "save" /\ Call("list") /\ now - op.at < RETENTION_MS) =>
       \E i \in 1..Len(ret') :
          /\ ret'[i].id = op.arg[1].id
          /\ ret'[i].title = op.arg[1].title
          /\ ret'[i].messages = op.arg[1].messages
          /\ ret'[i].modeId = op.arg[1].modeId
          /\ ret'[i].projectId = op.arg[1].projectId
          /\ ret'[i].lastModified = op.at]_vars

\* A list() that returned a session saved at this instant with a supplied
\* lastModified of 5.
C6_Witness ==
  /\ op.name = "list"
  /\ now = RETENTION_MS - 1
  /\ \E i \in 1..Len(ret) :
       ret[i].lastModified = now /\ ret[i].title = "Yo" /\ ret[i].id = "c"

\* C7 as claimed: delete(id) for an id no stored session has leaves the
\* stored list at the length it had.
C7_SameLength ==
  [][(Call("delete") /\ op'.id \notin SeqIds(storage)) =>
       Len(storage') = Len(storage)]_vars

\* C7 amended: delete(id) for an id no stored session has removes no
\* unexpired session: the stored list afterwards holds exactly the sessions
\* that were within retention, so its length is unchanged whenever no session
\* had reached retention age.
C7_KeepsLive ==
  [][(Call("delete") /\ op'.id \notin SeqIds(storage)) =>
       /\ Len(storage') = Cardinality(Live(now))
       /\ \A i \in Live(now) : storage'[Rank(Live(now), i)] = storage[i]
       /\ (Live(now) = 1..Len(storage)) => Len(storage') = Len(storage)]_vars

\* A delete of an id that was not stored, during which an expired session was
\* dropped and another one was kept.
C7_Witness ==
  /\ op.name = "delete"
  /\ op.index = 0
  /\ op.id \notin drop
  /\ drop # {}
  /\ Len(storage) = 1

\* C8: after delete(id) neither the returned nor the stored list holds id,
\* every other unexpired session is unchanged at its relative place, and no
\* later list() returns id unless it is saved again.
C8_Delete ==
  /\ [][Call("delete") =>
          LET others == {i \in Live(now) : storage[i].id # op'.id}
          IN /\ op'.id \notin SeqIds(ret')
             /\ ret' = storage'
             /\ Len(ret') = Cardinality(others)
             /\ \A i \in others : ret'[Rank(others, i)] = storage[i]]_vars
  /\ [](deleted \cap SeqIds(storage) = {})
  /\ [](op.name = "list" => deleted \cap SeqIds(ret) = {})

\* A list() after the delete of a stored session, with two sessions left.
C8_Witness ==
  /\ op.name = "list"
  /\ deleted # {}
  /\ lastIns # <<>>
  /\ lastIns[1].id \in deleted
  /\ Len(ret) = 2

\* What a reader expects under the key: an array of session records.
WellFormed == storageKind = "array" /\ \A i \in 1..Len(storage) : IsSession(storage[i])
HasNull == \E i \in 1..Len(storage) : storage[i] = JsonNull

\* C9 as claimed: whenever the stored blob is missing, is not JSON or is not
\* a list of session records, list() returns the empty sequence.
C9_EmptyUnlessWellFormed ==
  [][(Call("list") /\ ~WellFormed) => ret' = <<>>]_vars

\* C9 amended: list() always returns a list: the empty one, leaving the blob
\* as it is, when the blob is missing, is not JSON, is not an array or is an
\* array with a null element; for any other array, the elements without a
\* lastModified are dropped like expired sessions and the unexpired session
\* records are returned.
C9_Tolerant ==
  [][Call("list") =>
       /\ (storageKind # "array" \/ HasNull) =>
            /\ ret' = <<>>
            /\ storage' = storage
            /\ storageKind' = storageKind
       /\ (storageKind = "array" /\ ~HasNull) =>
            /\ \A i \in 1..Len(ret') : IsSession(ret'[i])
            /\ {ret'[i] : i \in 1..Len(ret')} =
                 {storage[i] : i \in {j \in 1..Len(storage) :
                      IsSession(storage[j]) /\ ~Expired(storage[j], now)}}
            /\ storage' = SelectSeq(storage, LAMBDA e : e \in {ret'[i] : i \in 1..Len(ret')})
            /\ storageKind' = "array"]_vars

\* A list() that returned nothing from an array that holds two sessions and
\* a null.
C9_Witness ==
  /\ op.name = "list"
  /\ storageKind = "array"
  /\ HasNull
  /\ Len(storage) = 3
  /\ ret = <<>>

\* C10: a session the retention filter has dropped from the stored list is
\* never put back into it by a later operation of the App.
C10_NoResurrection == dropped \cap SeqIds(storage) = {}

\* C11: when the response of a backend call arrives, no stored session other
\* than the one the call was sent from holds that response among its messages.
Holds(session, msg) == \E j \in 1..Len(session.messages) : session.messages[j] = msg
C11_ResponseStaysInOrigin ==
  [][\A p \in pending \ pending' :
       \A i \in 1..Len(storage') :
         storage'[i].id # p.origin => ~Holds(storage'[i], ModelMsg(p.n))]_vars

\* C12: with two App instances on one store, the last writer wins: right after
\* an instance's effect saved session X, the store holds exactly one entry
\* with id X, and it carries that instance's messages, mode and project and
\* the time of the save, whatever the other instance had saved under X before
\* and whether or not X had been deleted from the store in between.
StoredAs(id) == {i \in 1..Len(storage) : storage[i].id = id}
C12_LastWriterWins ==
  lastSave # <<>> =>
    LET writer == tabs[lastSave[1].tab]
        at == StoredAs(lastSave[1].id)
    IN /\ Cardinality(at) = 1
       /\ \A i \in at : /\ storage[i].messages = writer.messages
                         /\ storage[i].modeId = writer.mode
                         /\ storage[i].projectId = writer.project
                         /\ storage[i].lastModified = now
\* An instance has just written back a session that an instance had deleted,
\* while the other instance shows the same session with other messages.
C12_Witness ==
  /\ lastSave # <<>>
  /\ lastSave[1].id \in removed
  /\ StoredAs(lastSave[1].id) # {}
  /\ \E u \in Tabs : /\ u # lastSave[1].tab
                      /\ tabs[u].sid = lastSave[1].id
                      /\ tabs[u].messages # tabs[lastSave[1].tab].messages

\* C13: loading a sidebar entry whose modeId is not in the mode registry makes
\* the general mode current, one whose projectId is not in the project
\* registry makes no project current, and its id and messages are loaded.
Loads(i) == currentSessionId' # currentSessionId /\ currentSessionId' = sessions[i].id
C13_UnknownIdsFallBack ==
  [][\A i \in 1..Len(sessions) :
       Loads(i) =>
         /\ sessions[i].modeId \notin ModeIds => currentMode' = GeneralMode
         /\ sessions[i].projectId \notin ProjectIds => currentProject' = NoProject
         /\ messages' = sessions[i].messages]_vars

\* C14: when the credential is absent, sendMessageToGemini issues no outbound
\* call and returns the fixed diagnostic text and nothing else, whatever the
\* mode's provider; the App appends that text as a model message of type
\* text and stops typing.
Asked == output # <<>>
Last(seq) == seq[Len(seq)]
C14_NoKey ==
  Asked /\ input.apiKey = "" =>
    /\ output[1].calls = <<>>
    /\ output[1].result = Result(NoKeyText, Absent, Absent)
    /\ Len(output[1].messages) = Len(input.messages) + 2
    /\ Last(output[1].messages).role = "model"
    /\ Last(output[1].messages).type = "text"
    /\ Last(output[1].messages).content = NoKeyText
    /\ ~output[1].isTyping
C14_Witness ==
  /\ Asked
  /\ input.apiKey = ""
  /\ input.mode.provider = FAL_AI
  /\ input.backend.throws
  /\ Last(output[1].messages).content = NoKeyText

\* C15: with the credential present, if the outbound call throws, then
\* sendMessageToGemini returns (it does not throw) a result whose text
\* carries the provider name of the mode and the message of the error, and
\* that has neither images nor grounding metadata; so for each provider.
Carries(text, value) == \E i \in 1..Len(text) : text[i] = value
C15_ErrorResult ==
  Asked /\ input.apiKey # "" /\ input.backend.throws =>
    /\ Carries(output[1].result.text, input.mode.provider)
    /\ Carries(output[1].result.text, input.backend.message)
    /\ output[1].result.images = Absent
    /\ output[1].result.groundingMetadata = Absent
    /\ Len(output[1].calls) = 1
C15_Witness ==
  /\ Asked
  /\ input.apiKey # ""
  /\ input.backend.throws
  /\ input.mode.provider = TAVILY
  /\ output[1].result.text = <<"System Error", TAVILY, "quota exceeded">>

\* C16: with the credential present exactly one outbound call is issued, and
\* the provider of the mode decides its shape: the image provider gets an
\* image-generation call with the message text and the selected aspect ratio
\* (1:1 when none is selected); the search provider a call with the search
\* tool and the system instruction; the high-reasoning provider a chat call
\* with a thinking budget; any other provider a plain chat call, or, when
\* there are attachments, a one-shot call of several parts.
C16_OneCallByProvider ==
  Asked /\ input.apiKey # "" =>
    /\ Len(output[1].calls) = 1
    /\ LET call == output[1].calls[1]
           provider == input.mode.provider
           instruction == constructContextualSystemPrompt(input.mode, input.project)
       IN /\ provider = FAL_AI =>
               /\ call.api = "models.generateContent"
               /\ call.model = "gemini-2.5-flash-image"
               /\ call.contents = <<TextPart(input.text)>>
               /\ call.aspectRatio = IF input.imageSettings = Absent THEN "1:1"
                                     ELSE input.imageSettings[1].aspectRatio
          /\ provider = TAVILY =>
               /\ call.api = "models.generateContent"
               /\ call.tools = {"googleSearch"}
               /\ call.systemInstruction = Some(instruction)
               /\ call.contents = <<TextPart(input.text)>>
          /\ provider = DEEPSEEK =>
               /\ call.api = "chat.sendMessage"
               /\ call.thinkingBudget = Some(THINKING_BUDGET)
               /\ call.tools = {}
               /\ call.contents = <<TextPart(input.text)>>
          /\ provider \notin {FAL_AI, TAVILY, DEEPSEEK} =>
               /\ call.thinkingBudget = Absent
               /\ call.tools = {}
               /\ call.aspectRatio = ""
               /\ call.api = IF input.attachments = <<>> THEN "chat.sendMessage"
                             ELSE "models.generateContent"
               /\ Len(call.contents) = Len(input.attachments) + 1
C16_Witness ==
  /\ Asked
  /\ input.apiKey # ""
  /\ input.mode.provider = FAL_AI
  /\ input.imageSettings = Absent
  /\ input.attachments # <<>>
  /\ output[1].calls[1].aspectRatio = "1:1"

\* C17: for the high-reasoning provider, and for the general provider without
\* attachments, the history of the outbound call is the message list from
\* before the send, entry by entry in the same order, with role user kept
\* and every other role turned into model, and without the new message; for
\* the general provider with attachments the one-shot call carries the
\* attachments in order, then the new message text, and no history.
C17_History ==
  Asked /\ input.apiKey # "" =>
    LET call == output[1].calls[1]
        prior == input.messages
        chats == \/ input.mode.provider = DEEPSEEK
                 \/ input.mode.provider = GEMINI /\ input.attachments = <<>>
    IN /\ chats =>
            /\ Len(call.history) = Len(prior)
            /\ \A i \in 1..Len(prior) :
                 /\ call.history[i].text = prior[i].content
                 /\ call.history[i].role = IF prior[i].role = "user" THEN "user" ELSE "model"
                 /\ call.history[i].text # input.text
            /\ call.contents = <<TextPart(input.text)>>
       /\ input.mode.provider = GEMINI /\ input.attachments # <<>> =>
            /\ call.history = <<>>
            /\ Len(call.contents) = Len(input.attachments) + 1
            /\ \A i \in 1..Len(input.attachments) :
                 call.contents[i] = InlinePart(input.attachments[i].type,
                                               input.attachments[i].data)
            /\ Last(call.contents) = TextPart(input.text)
C17_Witness ==
  /\ Asked
  /\ input.apiKey # ""
  /\ input.mode.provider = DEEPSEEK
  /\ Len(input.messages) = 2
  /\ input.messages[1].role = "system"
  /\ input.messages[2].role = "user"
  /\ output[1].calls[1].history[1].role = "model"
  /\ output[1].calls[1].history[2].role = "user"

\* C18: the instruction built for a mode and a project shows, of the
\* project's private memory, only the entry keyed by that mode: two projects
\* with the same name, description, shared context and entry for the mode
\* (or both without one) get the same instruction, whatever entries they
\* hold for other modes; and the shared summary and key facts are in the
\* instruction of every mode.
Built == output # <<>>
EntryOf(project, modeId) ==
  IF modeId \in DOMAIN project.memory.modeContext
  THEN Some(project.memory.modeContext[modeId]) ELSE Absent
HasLine(instruction, line) == \E i \in 1..Len(instruction) : instruction[i] = line
C18_OnlyOwnMemory ==
  Built =>
    /\ (/\ input.a # NullProject
        /\ input.a.name = input.b.name
        /\ input.a.description = input.b.description
        /\ input.a.memory.sharedContext = input.b.memory.sharedContext
        /\ EntryOf(input.a, input.mode.id) = EntryOf(input.b, input.mode.id))
       => output[1].a = output[1].b
    /\ HasLine(output[1].b, Line("Summary", <<input.b.memory.sharedContext.summary>>))
    /\ HasLine(output[1].b, Line("Key Facts", Json(input.b.memory.sharedContext.keyFacts)))
C18_Witness ==
  /\ Built
  /\ input.a # NullProject
  /\ input.mode.id = "General"
  /\ input.a.memory.sharedContext = input.b.memory.sharedContext
  /\ DOMAIN input.a.memory.modeContext = ContextModes
  /\ DOMAIN input.b.memory.modeContext = {}
  /\ output[1].a = output[1].b

\* C19: with a project, the instruction holds the mode-memory block exactly
\* when the project has an entry keyed by the mode's id, and the no-memory
\* marker exactly when it has none, so always one of the two and never both;
\* without a project it consists of the mode name, the provider label and
\* the persona text and nothing else.
HasLabel(instruction, label) == \E i \in 1..Len(instruction) : instruction[i].label = label
C19_BlockOrMarker ==
  Built =>
    /\ HasLabel(output[1].b, "MODE MEMORY (Visible only to)")
         <=> input.mode.id \in DOMAIN input.b.memory.modeContext
    /\ HasLine(output[1].b, NoMemoryMarker)
         <=> input.mode.id \notin DOMAIN input.b.memory.modeContext
    /\ input.a = NullProject =>
         /\ Len(output[1].a) = 2
         /\ output[1].a[1].values = <<input.mode.name, input.mode.provider>>
         /\ output[1].a[2].values = <<input.mode.systemPrompt>>
C19_Witness ==
  /\ Built
  /\ input.a = NullProject
  /\ input.mode.id = "Market Research"
  /\ DOMAIN input.b.memory.modeContext = {"Market Research"}
  /\ HasLabel(output[1].b, "MODE MEMORY (Visible only to)")
  /\ ~HasLine(output[1].b, NoMemoryMarker)
  /\ Len(output[1].a) = 2

\* C20: for a message with grounding chunks, the Sources block of the export
\* lists exactly the chunks that have a web URI, in their order, and the
\* k-th line listed carries the number k.
Exported == output # <<>>
ListedSources(content) == SelectSeq(content, LAMBDA line : line.label = "source")
C20_SourcesNumbered ==
  LET grounding == input.messages[2].groundingMetadata
  IN Exported /\ grounding # Absent /\ grounding[1].groundingChunks # Absent =>
       LET withUri == SelectSeq(grounding[1].groundingChunks[1], HasUri)
           listed == ListedSources(output[1])
       IN /\ Len(listed) = Len(withUri)
          /\ \A k \in 1..Len(listed) : listed[k].values = <<ToString(k), withUri[k].uri>>

\* C21: a step puts an id into the store that the store did not hold exactly
\* when it is the send of a message while no session is current, and then
\* it is one id; every other step (new chat, mode or project change, load,
\* response, delete, a further send in a current session) leaves the number
\* of stored sessions as it is or lowers it.
FirstSend == sent' = sent + 1 /\ currentSessionId = NoSession
IsPrefix(short, long) ==
  Len(short) <= Len(long) /\ \A j \in 1..Len(short) : short[j] = long[j]
InFlight(n) == \E p \in pending : p.n = n
C23_EveryCallAnswered ==
  /\ \A n \in 1..MaxMsgs :
       InFlight(n) ~> (~InFlight(n) /\ Len(messages) > 0 /\ Last(messages) = ModelMsg(n))
  /\ [][\A p \in pending \ pending' : messages' = Append(messages, ModelMsg(p.n))]_vars
C23_Witness ==
  /\ sent = 1
  /\ pending = {}
  /\ currentSessionId = NoSession
  /\ storage = <<>>
  /\ messages = <<ModelMsg(1)>>

\* C24: after every operation of the App that writes the store (creating a
\* session, a save from the effect, a delete) the list the sidebar shows is
\* what list() returns at that moment: the same sessions in the same
\* newest-first order.
Persists == storage' # storage \/ storageKind' # storageKind
C24_SidebarIsList ==
  [][Persists => sessions' = loadSessions(storageKind', storage', now').ret]_vars

\* C25: loading a session that has at least one message saves it again: its
\* stored lastModified becomes the time of loading, its id, title and messages
\* stay as they were. Stated for every entry the sidebar offers, over the state
\* a click on it leads to.
SavedAgain(st, session) ==
  \E j \in 1..Len(st.storage) :
     /\ st.storage[j].id = session.id
     /\ st.storage[j].lastModified = now
     /\ st.storage[j].title = session.title
     /\ st.storage[j].messages = session.messages
C25_LoadSavesAgain ==
  \A i \in 1..Len(sessions) :
     Len(sessions[i].messages) > 0 => SavedAgain(loadSessionClick(i), sessions[i])

\* C25 as the code has it: the session is saved again unless it is the one
\* already on screen with its message array, mode and project as last saved;
\* then the click changes no state and nothing is written.
C25_LoadSavesAgainIfChanged ==
  \A i \in 1..Len(sessions) :
     Len(sessions[i].messages) > 0 =>
        IF loadSessionChanges(i)
        THEN SavedAgain(loadSessionClick(i), sessions[i])
        ELSE loadSessionClick(i) = AppState
C25_Witness ==
  /\ sent = 1 /\ pending = {} /\ switches = 0 /\ now = 1
  /\ currentSessionId = "0" /\ messages = <<UserMsg(1)>>
  /\ Len(storage) = 1 /\ storage[1].id = "0" /\ storage[1].lastModified = 1
  /\ storage[1].messages = <<UserMsg(1)>>

\* C26: the typing indicator is on exactly while at least one backend call
\* is in flight, also when a second message is sent before the first
\* response has arrived.
C26_TypingWhileInFlight == isTyping <=> pending # {}

\* C27: in every message list, in memory and stored, each model message
\* directly follows the user message whose send produced it.
InRequestOrder(list) ==
  \A j \in 1..Len(list) :
     list[j].role = "model" =>
        /\ j > 1
        /\ list[j - 1].role = "user"
        /\ list[j - 1].content[2] = list[j].content[2]
C27_RequestResponseOrder ==
  /\ InRequestOrder(messages)
  /\ \A i \in 1..Len(storage) : InRequestOrder(storage[i].messages)

\* C28: the model message the App appends has type IMAGE exactly when it
\* carries at least one image attachment; otherwise its type is TEXT and its
\* attachment list is empty; it never has type ERROR.
C28_ImageIffAttachment ==
  Asked =>
     LET aiMsg == Last(output[1].messages)
     IN /\ aiMsg.type = "image" <=> Len(aiMsg.attachments) > 0
        /\ aiMsg.type # "image" => aiMsg.type = "text" /\ aiMsg.attachments = <<>>
        /\ aiMsg.type # "error"

\* C29: whenever a session is current and the message list on screen is not
\* empty, the store holds a session with the current id whose messages are
\* the list on screen and whose modeId and projectId are the current mode and
\* project.
C29_CurrentSessionStored ==
  (currentSessionId # NoSession /\ Len(messages) > 0) =>
     \E j \in 1..Len(storage) :
        /\ storage[j].id = currentSessionId
        /\ storage[j].messages = messages
        /\ storage[j].modeId = currentMode
        /\ storage[j].projectId = currentProject

\* C30: deleting the current session resets the App to the new-chat state (no
\* current session, no messages, general mode, no project); deleting another
\* session leaves the current session id, the messages on screen, the mode
\* and the project as they are.
NewChatState ==
  /\ currentSessionId = NoSession
  /\ messages = <<>>
  /\ currentMode = GeneralMode
  /\ currentProject = NoProject
C30_DeleteResetsOnlyCurrent ==
  [][\A i \in 1..Len(sessions) :
       DeleteSession(i) =>
          IF sessions[i].id = currentSessionId
          THEN NewChatState'
          ELSE UNCHANGED <<currentSessionId, messages, currentMode, currentProject>>]_vars
C30_Witness ==
  /\ now = 1 /\ sent = 2 /\ switches = 1
  /\ currentSessionId = "1" /\ Len(messages) > 0 /\ ~shared
  /\ currentMode # GeneralMode
  /\ SeqIds(storage) = {"1"} /\ SeqIds(sessions) = {"1"}
====
